---- MODULE Spec2Model ----
(***************************************************************************)
(* Script rendering pipeline of backend/app/lesson/script_utils.py.        *)
(*                                                                         *)
(* A text is a sequence of Unicode code points (integers).  The state is   *)
(* one call of a public function: its arguments, the position reached in   *)
(* apply_script_preferences, the local variable `result`, and history logs *)
(* of the stages and composite steps that ran.                             *)
(***************************************************************************)
EXTENDS Integers, Sequences, FiniteSets, TLC

(***************************************************************************)
(* Characters.  The tables of unicodedata / str.upper / str.lower are      *)
(* given for the code points of Alphabet, from which every input text is   *)
(* drawn; the tables are closed under decomposition and case mapping.      *)
(***************************************************************************)
SPACE == 32
TAB == 9
INTERPUNCT == 183
OVERLINE == 862
CAPITAL_SIGMA == 931
SMALL_SIGMA == 963
FINAL_SIGMA == 962

Alphabet ==
    {9, 10, 32, 33, 44, 46, 65, 73, 74, 85, 86, 97, 105, 106, 117, 118, 183, 769, 787,
    834, 837, 862, 906, 908, 913, 914, 915, 916, 917, 918, 919, 920, 921, 922, 923,
    924, 925, 926, 927, 928, 929, 931, 932, 933, 934, 935, 936, 937, 943, 945, 946,
    947, 948, 949, 950, 951, 952, 953, 954, 955, 956, 957, 958, 959, 960, 961, 962,
    963, 964, 965, 966, 967, 968, 969, 972, 8032, 8038, 8040, 8046, 8115, 8124, 8150,
    8179, 8182, 8183}
Mn ==
    {769, 787, 834, 837, 862}
Alnum ==
    {65, 73, 74, 85, 86, 97, 105, 106, 117, 118, 906, 908, 913, 914, 915, 916, 917,
    918, 919, 920, 921, 922, 923, 924, 925, 926, 927, 928, 929, 931, 932, 933, 934,
    935, 936, 937, 943, 945, 946, 947, 948, 949, 950, 951, 952, 953, 954, 955, 956,
    957, 958, 959, 960, 961, 962, 963, 964, 965, 966, 967, 968, 969, 972, 8032, 8038,
    8040, 8046, 8115, 8124, 8150, 8179, 8182, 8183}
Cased ==
    {65, 73, 74, 85, 86, 97, 105, 106, 117, 118, 837, 906, 908, 913, 914, 915, 916,
    917, 918, 919, 920, 921, 922, 923, 924, 925, 926, 927, 928, 929, 931, 932, 933,
    934, 935, 936, 937, 943, 945, 946, 947, 948, 949, 950, 951, 952, 953, 954, 955,
    956, 957, 958, 959, 960, 961, 962, 963, 964, 965, 966, 967, 968, 969, 972, 8032,
    8038, 8040, 8046, 8115, 8124, 8150, 8179, 8182, 8183}
CaseIgnorable ==
    {46, 183, 769, 787, 834, 837, 862}
\* str.strip() with no argument strips these (str.isspace)
Whitespace ==
    {9, 10, 32}

NFD_char(c) ==
    CASE c = 906 -> <<921, 769>>   \* U+038A capital letter iota with tonos
      [] c = 908 -> <<927, 769>>   \* U+038C capital letter omicron with tonos
      [] c = 943 -> <<953, 769>>   \* U+03AF small letter iota with tonos
      [] c = 972 -> <<959, 769>>   \* U+03CC small letter omicron with tonos
      [] c = 8032 -> <<969, 787>>   \* U+1F60 small letter omega with psili
      [] c = 8038 -> <<969, 787, 834>>   \* U+1F66 small letter omega with psili and perispomeni
      [] c = 8040 -> <<937, 787>>   \* U+1F68 capital letter omega with psili
      [] c = 8046 -> <<937, 787, 834>>   \* U+1F6E capital letter omega with psili and perispomeni
      [] c = 8115 -> <<945, 837>>   \* U+1FB3 small letter alpha with ypogegrammeni
      [] c = 8124 -> <<913, 837>>   \* U+1FBC capital letter alpha with prosgegrammeni
      [] c = 8150 -> <<953, 834>>   \* U+1FD6 small letter iota with perispomeni
      [] c = 8179 -> <<969, 837>>   \* U+1FF3 small letter omega with ypogegrammeni
      [] c = 8182 -> <<969, 834>>   \* U+1FF6 small letter omega with perispomeni
      [] c = 8183 -> <<969, 834, 837>>   \* U+1FF7 small letter omega with perispomeni and ypogegrammeni
      [] OTHER -> <<c>>

upper_char(c) ==
    CASE c = 97 -> <<65>>   \* U+0061 latin small letter a
      [] c = 105 -> <<73>>   \* U+0069 latin small letter i
      [] c = 106 -> <<74>>   \* U+006A latin small letter j
      [] c = 117 -> <<85>>   \* U+0075 latin small letter u
      [] c = 118 -> <<86>>   \* U+0076 latin small letter v
      [] c = 837 -> <<921>>   \* U+0345 combining ypogegrammeni
      [] c = 943 -> <<906>>   \* U+03AF small letter iota with tonos
      [] c = 945 -> <<913>>   \* U+03B1 small letter alpha
      [] c = 946 -> <<914>>   \* U+03B2 small letter beta
      [] c = 947 -> <<915>>   \* U+03B3 small letter gamma
      [] c = 948 -> <<916>>   \* U+03B4 small letter delta
      [] c = 949 -> <<917>>   \* U+03B5 small letter epsilon
      [] c = 950 -> <<918>>   \* U+03B6 small letter zeta
      [] c = 951 -> <<919>>   \* U+03B7 small letter eta
      [] c = 952 -> <<920>>   \* U+03B8 small letter theta
      [] c = 953 -> <<921>>   \* U+03B9 small letter iota
      [] c = 954 -> <<922>>   \* U+03BA small letter kappa
      [] c = 955 -> <<923>>   \* U+03BB small letter lamda
      [] c = 956 -> <<924>>   \* U+03BC small letter mu
      [] c = 957 -> <<925>>   \* U+03BD small letter nu
      [] c = 958 -> <<926>>   \* U+03BE small letter xi
      [] c = 959 -> <<927>>   \* U+03BF small letter omicron
      [] c = 960 -> <<928>>   \* U+03C0 small letter pi
      [] c = 961 -> <<929>>   \* U+03C1 small letter rho
      [] c = 962 -> <<931>>   \* U+03C2 small letter final sigma
      [] c = 963 -> <<931>>   \* U+03C3 small letter sigma
      [] c = 964 -> <<932>>   \* U+03C4 small letter tau
      [] c = 965 -> <<933>>   \* U+03C5 small letter upsilon
      [] c = 966 -> <<934>>   \* U+03C6 small letter phi
      [] c = 967 -> <<935>>   \* U+03C7 small letter chi
      [] c = 968 -> <<936>>   \* U+03C8 small letter psi
      [] c = 969 -> <<937>>   \* U+03C9 small letter omega
      [] c = 972 -> <<908>>   \* U+03CC small letter omicron with tonos
      [] c = 8032 -> <<8040>>   \* U+1F60 small letter omega with psili
      [] c = 8038 -> <<8046>>   \* U+1F66 small letter omega with psili and perispomeni
      [] c = 8115 -> <<913, 921>>   \* U+1FB3 small letter alpha with ypogegrammeni
      [] c = 8124 -> <<913, 921>>   \* U+1FBC capital letter alpha with prosgegrammeni
      [] c = 8150 -> <<921, 834>>   \* U+1FD6 small letter iota with perispomeni
      [] c = 8179 -> <<937, 921>>   \* U+1FF3 small letter omega with ypogegrammeni
      [] c = 8182 -> <<937, 834>>   \* U+1FF6 small letter omega with perispomeni
      [] c = 8183 -> <<937, 834, 921>>   \* U+1FF7 small letter omega with perispomeni and ypogegrammeni
      [] OTHER -> <<c>>

lower_char(c) ==
    CASE c = 65 -> <<97>>   \* U+0041 latin capital letter a
      [] c = 73 -> <<105>>   \* U+0049 latin capital letter i
      [] c = 74 -> <<106>>   \* U+004A latin capital letter j
      [] c = 85 -> <<117>>   \* U+0055 latin capital letter u
      [] c = 86 -> <<118>>   \* U+0056 latin capital letter v
      [] c = 906 -> <<943>>   \* U+038A capital letter iota with tonos
      [] c = 908 -> <<972>>   \* U+038C capital letter omicron with tonos
      [] c = 913 -> <<945>>   \* U+0391 capital letter alpha
      [] c = 914 -> <<946>>   \* U+0392 capital letter beta
      [] c = 915 -> <<947>>   \* U+0393 capital letter gamma
      [] c = 916 -> <<948>>   \* U+0394 capital letter delta
      [] c = 917 -> <<949>>   \* U+0395 capital letter epsilon
      [] c = 918 -> <<950>>   \* U+0396 capital letter zeta
      [] c = 919 -> <<951>>   \* U+0397 capital letter eta
      [] c = 920 -> <<952>>   \* U+0398 capital letter theta
      [] c = 921 -> <<953>>   \* U+0399 capital letter iota
      [] c = 922 -> <<954>>   \* U+039A capital letter kappa
      [] c = 923 -> <<955>>   \* U+039B capital letter lamda
      [] c = 924 -> <<956>>   \* U+039C capital letter mu
      [] c = 925 -> <<957>>   \* U+039D capital letter nu
      [] c = 926 -> <<958>>   \* U+039E capital letter xi
      [] c = 927 -> <<959>>   \* U+039F capital letter omicron
      [] c = 928 -> <<960>>   \* U+03A0 capital letter pi
      [] c = 929 -> <<961>>   \* U+03A1 capital letter rho
      [] c = 931 -> <<963>>   \* U+03A3 capital letter sigma
      [] c = 932 -> <<964>>   \* U+03A4 capital letter tau
      [] c = 933 -> <<965>>   \* U+03A5 capital letter upsilon
      [] c = 934 -> <<966>>   \* U+03A6 capital letter phi
      [] c = 935 -> <<967>>   \* U+03A7 capital letter chi
      [] c = 936 -> <<968>>   \* U+03A8 capital letter psi
      [] c = 937 -> <<969>>   \* U+03A9 capital letter omega
      [] c = 8040 -> <<8032>>   \* U+1F68 capital letter omega with psili
      [] c = 8046 -> <<8038>>   \* U+1F6E capital letter omega with psili and perispomeni
      [] c = 8124 -> <<8115>>   \* U+1FBC capital letter alpha with prosgegrammeni
      [] OTHER -> <<c>>

Compose(a, m) ==
    CASE a = 921 /\ m = 769 -> 906   \* U+038A
      [] a = 927 /\ m = 769 -> 908   \* U+038C
      [] a = 953 /\ m = 769 -> 943   \* U+03AF
      [] a = 959 /\ m = 769 -> 972   \* U+03CC
      [] a = 969 /\ m = 787 -> 8032   \* U+1F60
      [] a = 8032 /\ m = 834 -> 8038   \* U+1F66
      [] a = 937 /\ m = 787 -> 8040   \* U+1F68
      [] a = 8040 /\ m = 834 -> 8046   \* U+1F6E
      [] a = 945 /\ m = 837 -> 8115   \* U+1FB3
      [] a = 913 /\ m = 837 -> 8124   \* U+1FBC
      [] a = 953 /\ m = 834 -> 8150   \* U+1FD6
      [] a = 969 /\ m = 837 -> 8179   \* U+1FF3
      [] a = 969 /\ m = 834 -> 8182   \* U+1FF6
      [] a = 8182 /\ m = 837 -> 8183   \* U+1FF7
      [] OTHER -> 0

\* unicodedata.combining
CCC(c) ==
    CASE c = 769 -> 230
      [] c = 787 -> 230
      [] c = 834 -> 230
      [] c = 837 -> 240
      [] c = 862 -> 234
      [] OTHER -> 0

(***************************************************************************)
(* Sequence helpers.                                                       *)
(***************************************************************************)
\* "".join(parts)
RECURSIVE join(_)
join(parts) ==
    IF parts = <<>> THEN <<>> ELSE Head(parts) \o join(Tail(parts))

\* str.replace(old, new) for a one-character `old`
replace(s, old, new) ==
    join([i \in DOMAIN s |-> IF s[i] = old THEN new ELSE <<s[i]>>])

\* for old, new in table: s = s.replace(old, new)   (in the table's order).
\* Each intermediate text is evaluated (Len) before the next replacement, which
\* keeps TLC's evaluation depth independent of the table's length.
RECURSIVE replace_from(_, _, _)
replace_from(s, table, i) ==
    IF i > Len(table) THEN s
    ELSE LET replaced == replace(s, table[i][1], table[i][2])
         IN  IF Len(replaced) >= 0 THEN replace_from(replaced, table, i + 1) ELSE s

\* one pass over the text: each character is rewritten once, by the first
\* pair of the table whose old character it is
replace_each_one_pass(s, table) ==
    join([i \in DOMAIN s |->
              LET hits == {k \in DOMAIN table : table[k][1] = s[i]}
              IN  IF hits = {} THEN <<s[i]>>
                  ELSE table[CHOOSE k \in hits : \A j \in hits : k <= j][2]])

replace_each(s, table) == replace_from(s, table, 1)

\* re.sub(r"[set]+", repl, s): every maximal run of characters of `set`
\* becomes one copy of repl
RECURSIVE re_sub_runs(_, _, _)
re_sub_runs(s, set, repl) ==
    IF s = <<>> THEN <<>>
    ELSE IF Head(s) \in set
         THEN IF Len(s) > 1 /\ s[2] \in set
              THEN re_sub_runs(Tail(s), set, repl)
              ELSE repl \o re_sub_runs(Tail(s), set, repl)
         ELSE <<Head(s)>> \o re_sub_runs(Tail(s), set, repl)

RECURSIVE lstrip(_)
lstrip(s) ==
    IF s # <<>> /\ Head(s) \in Whitespace THEN lstrip(Tail(s)) ELSE s

RECURSIVE rstrip(_)
rstrip(s) ==
    IF s # <<>> /\ s[Len(s)] \in Whitespace
    THEN rstrip(SubSeq(s, 1, Len(s) - 1)) ELSE s

\* str.strip()
strip(s) == rstrip(lstrip(s))

(***************************************************************************)
(* unicodedata.normalize and str.upper / str.lower                         *)
(***************************************************************************)
\* canonical ordering: a mark moves before the marks of a higher combining
\* class that precede it
RECURSIVE insert_mark(_, _)
insert_mark(done, c) ==
    IF done = <<>> \/ CCC(c) = 0 \/ CCC(done[Len(done)]) <= CCC(c)
    THEN Append(done, c)
    ELSE Append(insert_mark(SubSeq(done, 1, Len(done) - 1), c), done[Len(done)])

RECURSIVE canonical_order(_, _)
canonical_order(done, rest) ==
    IF rest = <<>> THEN done
    ELSE LET placed == insert_mark(done, Head(rest))
         IN  IF Len(placed) >= 0 THEN canonical_order(placed, Tail(rest)) ELSE done

NFD(s) == canonical_order(<<>>, join([i \in DOMAIN s |-> NFD_char(s[i])]))

\* canonical composition: a character absorbs the marks that follow it
\* while the pair has a primary composite
RECURSIVE NFC_from(_, _)
NFC_from(done, rest) ==
    IF rest = <<>> THEN done
    ELSE IF done # <<>> /\ Compose(done[Len(done)], Head(rest)) # 0
         THEN NFC_from(SubSeq(done, 1, Len(done) - 1)
                         \o <<Compose(done[Len(done)], Head(rest))>>, Tail(rest))
         ELSE NFC_from(Append(done, Head(rest)), Tail(rest))

NFC(s) == NFC_from(<<>>, NFD(s))

upper(s) == join([i \in DOMAIN s |-> upper_char(s[i])])

\* CPython's Final_Sigma rule for U+03A3 in str.lower()
RECURSIVE cased_before(_, _)
cased_before(s, i) ==
    IF i < 1 THEN FALSE
    ELSE IF s[i] \in CaseIgnorable THEN cased_before(s, i - 1)
    ELSE s[i] \in Cased

RECURSIVE cased_after(_, _)
cased_after(s, i) ==
    IF i > Len(s) THEN FALSE
    ELSE IF s[i] \in CaseIgnorable THEN cased_after(s, i + 1)
    ELSE s[i] \in Cased

lower(s) ==
    LET low(i) ==
            IF s[i] = CAPITAL_SIGMA
            THEN IF cased_before(s, i - 1) /\ ~cased_after(s, i + 1)
                 THEN <<FINAL_SIGMA>> ELSE <<SMALL_SIGMA>>
            ELSE lower_char(s[i])
        RECURSIVE go(_)
        go(i) == IF i > Len(s) THEN <<>> ELSE low(i) \o go(i + 1)
    IN  go(1)

(***************************************************************************)
(* _remove_accents                                                         *)
(***************************************************************************)
greek_monotonic_map == <<
    <<902, <<913>>>>,
    <<904, <<917>>>>,
    <<905, <<919>>>>,
    <<906, <<921>>>>,
    <<908, <<927>>>>,
    <<910, <<933>>>>,
    <<911, <<937>>>>,
    <<938, <<921>>>>,
    <<939, <<933>>>>
>>

\* the filter dropping one mark per letter: a mark that follows a mark stays
_remove_accents_one_mark(text) ==
    LET result == replace_each(text, greek_monotonic_map)
        nfd == NFD(result)
        kept == {i \in DOMAIN nfd : nfd[i] \notin Mn \/ (i > 1 /\ nfd[i - 1] \in Mn)}
        RECURSIVE pick(_)
        pick(i) == IF i > Len(nfd) THEN <<>>
                   ELSE (IF i \in kept THEN <<nfd[i]>> ELSE <<>>) \o pick(i + 1)
    IN  NFC(pick(1))

_remove_accents(text) ==
    LET result == replace_each(text, greek_monotonic_map)
        nfd == NFD(result)
        without_accents == SelectSeq(nfd, LAMBDA char : char \notin Mn)
    IN  NFC(without_accents)

(***************************************************************************)
(* convert_iota_subscript_to_adscript                                      *)
(***************************************************************************)
lowercase_map == <<
    <<8064, <<945, 953>>>>,
    <<8065, <<945, 953>>>>,
    <<8066, <<945, 953>>>>,
    <<8067, <<945, 953>>>>,
    <<8068, <<945, 953>>>>,
    <<8069, <<945, 953>>>>,
    <<8070, <<945, 953>>>>,
    <<8071, <<945, 953>>>>,
    <<8112, <<945>>>>,
    <<8113, <<945>>>>,
    <<8115, <<945, 953>>>>,
    <<8116, <<945, 953>>>>,
    <<8118, <<945>>>>,
    <<8119, <<945, 953>>>>,
    <<8080, <<951, 953>>>>,
    <<8081, <<951, 953>>>>,
    <<8082, <<951, 953>>>>,
    <<8083, <<951, 953>>>>,
    <<8084, <<951, 953>>>>,
    <<8085, <<951, 953>>>>,
    <<8086, <<951, 953>>>>,
    <<8087, <<951, 953>>>>,
    <<8131, <<951, 953>>>>,
    <<8132, <<951, 953>>>>,
    <<8134, <<951>>>>,
    <<8135, <<951, 953>>>>,
    <<8096, <<969, 953>>>>,
    <<8097, <<969, 953>>>>,
    <<8098, <<969, 953>>>>,
    <<8099, <<969, 953>>>>,
    <<8100, <<969, 953>>>>,
    <<8101, <<969, 953>>>>,
    <<8102, <<969, 953>>>>,
    <<8103, <<969, 953>>>>,
    <<8179, <<969, 953>>>>,
    <<8180, <<969, 953>>>>,
    <<8182, <<969>>>>,
    <<8183, <<969, 953>>>>
>>

uppercase_map == <<
    <<8072, <<913, 921>>>>,
    <<8073, <<913, 921>>>>,
    <<8074, <<913, 921>>>>,
    <<8075, <<913, 921>>>>,
    <<8076, <<913, 921>>>>,
    <<8077, <<913, 921>>>>,
    <<8078, <<913, 921>>>>,
    <<8079, <<913, 921>>>>,
    <<8124, <<913, 921>>>>,
    <<8088, <<919, 921>>>>,
    <<8089, <<919, 921>>>>,
    <<8090, <<919, 921>>>>,
    <<8091, <<919, 921>>>>,
    <<8092, <<919, 921>>>>,
    <<8093, <<919, 921>>>>,
    <<8094, <<919, 921>>>>,
    <<8095, <<919, 921>>>>,
    <<8140, <<919, 921>>>>,
    <<8104, <<937, 921>>>>,
    <<8105, <<937, 921>>>>,
    <<8106, <<937, 921>>>>,
    <<8107, <<937, 921>>>>,
    <<8108, <<937, 921>>>>,
    <<8109, <<937, 921>>>>,
    <<8110, <<937, 921>>>>,
    <<8111, <<937, 921>>>>,
    <<8188, <<937, 921>>>>
>>

convert_iota_subscript_to_adscript(text) ==
    replace_each(replace_each(text, lowercase_map), uppercase_map)

(***************************************************************************)
(* Word separation                                                         *)
(***************************************************************************)
\* re.sub(r"[ \t]+", "", text)
\* the pattern \s+ in place of [ \t]+
apply_scriptio_continua_all_white(text) == re_sub_runs(text, Whitespace, <<>>)

apply_scriptio_continua(text) == re_sub_runs(text, {SPACE, TAB}, <<>>)

\* re.sub(r" +", "·", text.strip())
\* the substitution without text.strip()
apply_interpunct_untrimmed(text) == re_sub_runs(text, {SPACE}, <<INTERPUNCT>>)

apply_interpunct(text) == re_sub_runs(strip(text), {SPACE}, <<INTERPUNCT>>)

\* every space replaced on its own: runs of spaces not collapsed
_apply_word_separator_each(text, separator) == replace(strip(text), SPACE, separator)

\* re.sub(r" +", separator, text.strip())
_apply_word_separator(text, separator) ==
    re_sub_runs(strip(text), {SPACE}, separator)

(***************************************************************************)
(* apply_nomina_sacra                                                      *)
(***************************************************************************)
KOINE == "grc-koi"

nomina_sacra == <<
    <<<<920, 917, 927, 931>>, <<920, 862, 931, 862>>>>,
    <<<<920, 917, 927, 933>>, <<920, 862, 933, 862>>>>,
    <<<<920, 917, 937, 925>>, <<920, 862, 925, 862>>>>,
    <<<<922, 933, 929, 921, 927, 931>>, <<922, 862, 931, 862>>>>,
    <<<<922, 933, 929, 921, 927, 933>>, <<922, 862, 933, 862>>>>,
    <<<<922, 933, 929, 921, 937, 925>>, <<922, 862, 925, 862>>>>,
    <<<<921, 919, 931, 927, 933, 931>>, <<921, 862, 931, 862>>>>,
    <<<<921, 919, 931, 927, 933>>, <<921, 862, 933, 862>>>>,
    <<<<935, 929, 921, 931, 932, 927, 931>>, <<935, 862, 931, 862>>>>,
    <<<<935, 929, 921, 931, 932, 927, 933>>, <<935, 862, 933, 862>>>>,
    <<<<928, 925, 917, 933, 924, 913>>, <<928, 862, 925, 862, 913, 862>>>>,
    <<<<928, 925, 917, 933, 924, 913, 932, 927, 931>>, <<928, 862, 925, 862, 931, 862>>>>,
    <<<<933, 921, 927, 931>>, <<933, 862, 931, 862>>>>,
    <<<<933, 921, 927, 933>>, <<933, 862, 933, 862>>>>,
    <<<<928, 913, 932, 919, 929>>, <<928, 862, 919, 862, 929, 862>>>>,
    <<<<928, 913, 932, 929, 927, 931>>, <<928, 862, 929, 862, 931, 862>>>>,
    <<<<924, 919, 932, 919, 929>>, <<924, 862, 919, 862, 929, 862>>>>,
    <<<<924, 919, 932, 929, 927, 931>>, <<924, 862, 929, 862, 931, 862>>>>,
    <<<<913, 925, 920, 929, 937, 928, 927, 931>>, <<913, 862, 925, 862, 927, 862, 931, 862>>>>,
    <<<<913, 925, 920, 929, 937, 928, 927, 933>>, <<913, 862, 925, 862, 927, 862, 933, 862>>>>,
    <<<<927, 933, 929, 913, 925, 927, 931>>, <<927, 862, 933, 862, 925, 862, 931, 862>>>>,
    <<<<927, 933, 929, 913, 925, 927, 933>>, <<927, 862, 933, 862, 925, 862, 933, 862>>>>,
    <<<<921, 931, 929, 913, 919, 923>>, <<921, 862, 919, 862, 923, 862>>>>,
    <<<<916, 913, 933, 921, 916>>, <<916, 862, 913, 862, 916, 862>>>>,
    <<<<921, 917, 929, 927, 933, 931, 913, 923, 919, 924>>, <<921, 862, 923, 862, 919, 862, 924, 862>>>>,
    <<<<931, 932, 913, 933, 929, 927, 931>>, <<931, 862, 932, 862, 931, 862>>>>
>>

\* sorted(items, key=lambda x: -len(x[0])): a stable sort, longest key first
RECURSIVE insert_by_length(_, _)
insert_by_length(sorted, item) ==
    IF sorted = <<>> THEN <<item>>
    ELSE IF Len(Head(sorted)[1]) >= Len(item[1])
         THEN <<Head(sorted)>> \o insert_by_length(Tail(sorted), item)
         ELSE <<item>> \o sorted

RECURSIVE sorted_longest_first(_)
sorted_longest_first(items) ==
    IF items = <<>> THEN <<>>
    ELSE insert_by_length(sorted_longest_first(SubSeq(items, 1, Len(items) - 1)),
                          items[Len(items)])

\* \w of a str pattern: alphanumerics and the underscore
is_word_char(c) == c \in Alnum \/ c = 95

\* the pattern without its \b: every position qualifies
word_boundary_anywhere(s, p) == TRUE

\* \b between s[p - 1] and s[p]; outside the text counts as a non-word
word_boundary(s, p) ==
    LET before == p > 1 /\ is_word_char(s[p - 1])
        after == p <= Len(s) /\ is_word_char(s[p])
    IN  before # after

\* the pattern \b{full_word}\b matches at index i
matches_at(s, i, full_word) ==
    /\ i + Len(full_word) - 1 <= Len(s)
    /\ SubSeq(s, i, i + Len(full_word) - 1) = full_word
    /\ word_boundary(s, i)
    /\ word_boundary(s, i + Len(full_word))

\* re.sub(rf"\b{full_word}\b", abbreviated, s): leftmost non-overlapping matches
RECURSIVE re_sub_word(_, _, _, _)
re_sub_word(s, i, full_word, abbreviated) ==
    IF i > Len(s) THEN <<>>
    ELSE IF matches_at(s, i, full_word)
         THEN abbreviated \o re_sub_word(s, i + Len(full_word), full_word, abbreviated)
         ELSE <<s[i]>> \o re_sub_word(s, i + 1, full_word, abbreviated)

\* for full_word, abbreviated in entries: result = re.sub(...)
RECURSIVE abbreviate_from(_, _, _)
abbreviate_from(s, entries, k) ==
    IF k > Len(entries) THEN s
    ELSE LET replaced == re_sub_word(s, 1, entries[k][1], entries[k][2])
         IN  IF Len(replaced) >= 0 THEN abbreviate_from(replaced, entries, k + 1) ELSE s

\* the function without its language guard
apply_nomina_sacra_any_language(text, language_code) ==
    abbreviate_from(text, sorted_longest_first(nomina_sacra), 1)

apply_nomina_sacra(text, language_code) ==
    IF language_code # KOINE THEN text
    ELSE abbreviate_from(text, sorted_longest_first(nomina_sacra), 1)

(***************************************************************************)
(* remove_modern_punctuation                                               *)
(***************************************************************************)
modern_punctuation == <<
    <<63, <<>>>>,
    <<33, <<>>>>,
    <<44, <<32>>>>,
    <<59, <<32>>>>,
    <<58, <<32>>>>,
    <<46, <<32>>>>,
    <<34, <<>>>>,
    <<39, <<>>>>,
    <<8212, <<32>>>>,
    <<8211, <<32>>>>,
    <<40, <<>>>>,
    <<41, <<>>>>,
    <<91, <<>>>>,
    <<93, <<>>>>
>>

\* the clean-up without its .strip()
remove_modern_punctuation_untrimmed(text, language_code) ==
    re_sub_runs(replace_each(text, modern_punctuation), {SPACE}, <<SPACE>>)

remove_modern_punctuation(text, language_code) ==
    strip(re_sub_runs(replace_each(text, modern_punctuation), {SPACE}, <<SPACE>>))

(***************************************************************************)
(* LanguageConfig / ScriptRules (app.lesson.language_config) and the       *)
(* ScriptDisplayMode preferences object.  An optional value is None or     *)
(* Some(v).                                                                *)
(***************************************************************************)
None == <<>>
Some(v) == <<v>>

\* normalize_chars of a Latin configuration: J -> I, U -> V, j -> i, u -> v
LatinNormalizeChars == <<<<74, <<73>>>>, <<85, <<86>>>>, <<106, <<105>>>>, <<117, <<118>>>>>>

ScriptRules(cases, accents, normalizations, vforu, continua, separators) ==
    [case : cases, has_accents : accents, normalize_chars : normalizations,
     char_v_for_u : vforu, scriptio_continua_default : continua,
     word_separator : separators]

Separators == {None, Some(<<INTERPUNCT>>)}

\* every combination of script rules
AllConfigs ==
    ScriptRules({"upper", "lower", "mixed"}, BOOLEAN, {<<>>, LatinNormalizeChars},
                BOOLEAN, BOOLEAN, Separators)

\* Ancient Greek: upper case, accents stripped, no configured separator
GreekConfig ==
    [case |-> "upper", has_accents |-> FALSE, normalize_chars |-> <<>>,
     char_v_for_u |-> FALSE, scriptio_continua_default |-> FALSE,
     word_separator |-> None]

\* the configurations the registry holds in the pipeline specifications:
\* Greek-like, Latin-like and rule-free, with every separator setting
PipelineConfigs ==
    ScriptRules({"upper"}, {FALSE}, {<<>>}, {FALSE}, BOOLEAN, Separators)
      \cup ScriptRules({"upper"}, {FALSE}, {LatinNormalizeChars}, {TRUE}, BOOLEAN, Separators)
      \cup ScriptRules({"mixed"}, {TRUE}, {<<>>}, {FALSE}, BOOLEAN, Separators)

PreferenceFields ==
    {"use_scriptio_continua", "use_interpuncts", "use_iota_adscript",
     "use_nomina_sacra", "remove_modern_punctuation"}

\* ScriptDisplayMode objects
ScriptDisplayModes == [PreferenceFields -> BOOLEAN]

\* the keyword parameters of apply_script_preferences and their defaults
DefaultFlags ==
    [use_scriptio_continua |-> FALSE, use_interpuncts |-> FALSE,
     use_iota_adscript |-> TRUE, use_nomina_sacra |-> FALSE,
     remove_punctuation |-> FALSE]

FlagNames == DOMAIN DefaultFlags

\* a keyword argument is passed (Some(b)) or omitted (None)
bind(kwargs, name) ==
    IF kwargs[name] = None THEN DefaultFlags[name] ELSE kwargs[name][1]

GREEK_CODES == {"grc", "grc-koi"}

(***************************************************************************)
(* apply_script_transform_with_config: the authentic-mode composite.  The  *)
(* value is the text returned together with the steps that ran, in order.  *)
(***************************************************************************)
ran(st, step, text) == [result |-> text, steps |-> Append(st.steps, step)]

\* the guard without its test of normalize_chars
legacy_v_for_u_unconditional(script) == script.char_v_for_u

\* the guard of the legacy V-for-U substitution
legacy_v_for_u(script) == script.char_v_for_u /\ script.normalize_chars = <<>>

\* the guard of the configured default scriptio continua
default_scriptio_continua(script) ==
    script.scriptio_continua_default /\ script.word_separator = None

\* `if config.script.word_separator:` -- a non-empty string
configured_separator(script) ==
    script.word_separator # None /\ script.word_separator[1] # <<>>

\* lines 56-60
normalize_step(st, script) ==
    IF script.normalize_chars # <<>>
    THEN ran(st, "normalize_chars", replace_each(st.result, script.normalize_chars))
    ELSE st

\* lines 62-64
accents_step(st, script) ==
    IF ~script.has_accents THEN ran(st, "_remove_accents", _remove_accents(st.result))
    ELSE st

\* lines 66-70
case_step(st, script) ==
    IF script.case = "upper" THEN ran(st, "upper", upper(st.result))
    ELSE IF script.case = "lower" THEN ran(st, "lower", lower(st.result))
    ELSE st

\* lines 72-76
v_for_u_step(st, script) ==
    IF legacy_v_for_u(script)
    THEN ran(st, "v_for_u", replace(replace(st.result, 85, <<86>>), 117, <<118>>))
    ELSE st

\* lines 78-80
scriptio_continua_step(st, script) ==
    IF default_scriptio_continua(script)
    THEN ran(st, "apply_scriptio_continua", apply_scriptio_continua(st.result))
    ELSE st

\* lines 82-84
word_separator_step(st, script) ==
    IF configured_separator(script)
    THEN ran(st, "_apply_word_separator",
             _apply_word_separator(st.result, script.word_separator[1]))
    ELSE st

apply_script_transform_with_config(text, script) ==
    IF text = <<>> THEN [result |-> text, steps |-> <<>>]
    ELSE word_separator_step(
           scriptio_continua_step(
             v_for_u_step(
               case_step(
                 accents_step(
                   normalize_step([result |-> text, steps |-> <<>>], script),
                   script),
                 script),
               script),
             script),
           script)

(***************************************************************************)
(* get_alphabet_for_language                                               *)
(***************************************************************************)
\* the curated alphabets, in the order of the tests of lines 434-539:
\* <<the language codes, the characters of the literal>>
curated_alphabets == <<
    \* line 434
    <<{"grc", "grc-koi"},
      <<913, 914, 915, 916, 917, 918, 919, 920, 921, 922, 923, 924, 925, 926, 927, 928,
       929, 931, 932, 933, 934, 935, 936, 937>>>>,
    \* line 438
    <<{"lat"},
      <<65, 66, 67, 68, 69, 70, 71, 72, 73, 75, 76, 77, 78, 79, 80, 81, 82, 83, 84, 86,
       88, 89, 90>>>>,
    \* line 442
    <<{"hbo", "hbo-paleo"},
      <<1488, 1489, 1490, 1491, 1492, 1493, 1494, 1495, 1496, 1497, 1499, 1500, 1502,
       1504, 1505, 1506, 1508, 1510, 1511, 1512, 1513, 1514>>>>,
    \* line 446
    <<{"ara"},
      <<1575, 1576, 1578, 1579, 1580, 1581, 1582, 1583, 1584, 1585, 1586, 1587, 1588,
       1589, 1590, 1591, 1592, 1593, 1594, 1601, 1602, 1603, 1604, 1605, 1606, 1607,
       1608, 1610>>>>,
    \* line 450
    <<{"cu"},
      <<1040, 1041, 1042, 1043, 1044, 1045, 1046, 1047, 1048, 1030, 1050, 1051, 1052,
       1053, 1054, 1055, 1056, 1057, 1058, 1054, 1059, 1060, 1061, 1062, 1063, 1064,
       1065, 1066, 1067, 1068, 1122, 1070, 1126, 1130, 1128, 1132, 1134, 1136, 1138,
       1140>>>>,
    \* line 454
    <<{"san", "san-ved"},
      <<2309, 2310, 2311, 2312, 2313, 2314, 2315, 2400, 2316, 2401, 2319, 2320, 2323,
       2324, 2325, 2326, 2327, 2328, 2329, 2330, 2331, 2332, 2333, 2334, 2335, 2336,
       2337, 2338, 2339, 2340, 2341, 2342, 2343, 2344, 2346, 2347, 2348, 2349, 2350,
       2351, 2352, 2354, 2357, 2358, 2359, 2360, 2361>>>>,
    \* line 458
    <<{"pli"},
      <<2309, 2310, 2311, 2312, 2313, 2314, 2319, 2323, 2325, 2326, 2327, 2328, 2329,
       2330, 2331, 2332, 2333, 2334, 2335, 2336, 2337, 2338, 2339, 2340, 2341, 2342,
       2343, 2344, 2346, 2347, 2348, 2349, 2350, 2351, 2352, 2354, 2357, 2358, 2360,
       2361>>>>,
    \* line 462
    <<{"non"},
      <<65, 193, 66, 68, 208, 69, 201, 70, 71, 72, 73, 205, 74, 75, 76, 77, 78, 79, 80,
       81, 82, 83, 84, 85, 218, 86, 88, 89, 221, 222, 198, 338>>>>,
    \* line 466
    <<{"ang"},
      <<65, 66, 67, 68, 69, 70, 71, 72, 73, 76, 77, 78, 79, 80, 82, 83, 84, 86, 88, 89,
       90, 198, 208, 222, 503>>>>,
    \* line 470
    <<{"cop"},
      <<11392, 11394, 11396, 11398, 11400, 11404, 11406, 11408, 11410, 11412, 11414,
       11416, 11418, 11420, 11422, 11424, 11426, 11428, 11430, 11432, 11434, 11436,
       11438, 11440, 994, 996, 998, 1000, 1002, 1004, 1006>>>>,
    \* line 474
    <<{"xcl", "hye"},
      <<1329, 1330, 1331, 1332, 1333, 1334, 1335, 1336, 1337, 1338, 1339, 1340, 1341,
       1342, 1343, 1344, 1345, 1346, 1347, 1348, 1349, 1350, 1351, 1352, 1353, 1354,
       1355, 1356, 1357, 1358, 1359, 1360, 1361, 1362, 1363, 1364, 1365, 1366>>>>,
    \* line 478
    <<{"kat"},
      <<4304, 4305, 4306, 4307, 4308, 4309, 4310, 4311, 4312, 4313, 4314, 4315, 4316,
       4317, 4318, 4319, 4320, 4321, 4322, 4323, 4324, 4325, 4326, 4327, 4328, 4329,
       4330, 4331, 4332, 4333, 4334, 4335, 4336>>>>,
    \* line 482
    <<{"got"},
      <<66352, 66353, 66354, 66355, 66356, 66357, 66358, 66359, 66360, 66361, 66362,
       66363, 66364, 66365, 66366, 66367, 66368, 66369, 66370, 66371, 66372, 66373,
       66374, 66375, 66376, 66377, 66378>>>>,
    \* line 486
    <<{"sga"},
      <<65, 66, 67, 68, 69, 70, 71, 72, 73, 76, 77, 78, 79, 80, 82, 83, 84, 85, 86, 201,
       205, 211, 218>>>>,
    \* line 490
    <<{"syc"},
      <<1808, 1810, 1811, 1813, 1815, 1816, 1817, 1818, 1819, 1821, 1823, 1824, 1825,
       1826, 1827, 1829, 1830, 1832, 1833, 1834, 1835, 1836>>>>,
    \* line 494
    <<{"arc"},
      <<67648, 67649, 67650, 67651, 67652, 67653, 67654, 67655, 67656, 67657, 67658,
       67659, 67660, 67661, 67662, 67663, 67664, 67665, 67666, 67667, 67668, 67669>>>>,
    \* line 498
    <<{"ave"},
      <<68352, 68353, 68354, 68355, 68356, 68357, 68358, 68359, 68360, 68361, 68362,
       68363, 68364, 68365, 68366, 68367, 68368, 68369, 68370, 68371, 68372, 68373,
       68374, 68375, 68376, 68377, 68378, 68379, 68380, 68381, 68382>>>>,
    \* line 502
    <<{"lzh"},
      <<19968, 20108, 19977, 22235, 20116, 20845, 19971, 20843, 20061, 21313, 20154,
       22825, 22320, 27700, 28779, 26408, 37329, 22303, 26085, 26376, 23665, 24029>>>>,
    \* line 506
    <<{"ojp"},
      <<12354, 12356, 12358, 12360, 12362, 12363, 12365, 12367, 12369, 12371, 12373,
       12375, 12377, 12379, 12381, 12383, 12385, 12388, 12390, 12392, 12394, 12395,
       12396, 12397, 12398>>>>,
    \* line 510
    <<{"bod"},
      <<3904, 3905, 3906, 3908, 3909, 3910, 3911, 3913, 3919, 3920, 3921, 3923, 3924,
       3925, 3926, 3928, 3929, 3930, 3931, 3933, 3934, 3935, 3936, 3937, 3938, 3939,
       3940, 3942, 3943, 3944>>>>,
    \* line 514
    <<{"nci"},
      <<65, 67, 69, 72, 73, 76, 77, 78, 79, 80, 81, 84, 85, 86, 88, 89, 90>>>>,
    \* line 518
    <<{"qwh"},
      <<65, 67, 72, 73, 75, 76, 77, 78, 80, 81, 82, 83, 84, 85, 86, 87, 89>>>>,
    \* line 522
    <<{"akk"},
      <<65, 66, 68, 69, 71, 72, 73, 75, 76, 77, 78, 80, 81, 82, 83, 352, 84, 85, 86, 87,
       89, 90, 7778, 7788>>>>,
    \* line 526
    <<{"sux"},
      <<65, 66, 68, 69, 71, 72, 73, 75, 76, 77, 78, 80, 82, 83, 84, 85, 86, 90>>>>,
    \* line 530
    <<{"hit"},
      <<65, 66, 68, 69, 71, 72, 73, 75, 76, 77, 78, 80, 82, 83, 84, 85, 86, 87, 90>>>>,
    \* line 534
    <<{"pal"},
      <<68448, 68449, 68450, 68451, 68452, 68453, 68454, 68455, 68456, 68457, 68458,
       68459, 68460, 68461, 68462, 68463, 68464, 68465, 68466>>>>,
    \* line 538
    <<{"egy-old", "egy"},
      <<42786, 66, 68, 69, 70, 71, 72, 7716, 73, 75, 77, 78, 80, 81, 82, 83, 352, 84,
       86, 87, 89, 90>>>>
>>

\* str.isalpha: the alphanumeric characters of Alphabet are its letters
isalpha(char) == char \in Alnum

\* lines 543-546: the letters of the name in order of first appearance
RECURSIVE unique_letters(_, _)
unique_letters(unique_chars, name) ==
    IF name = <<>> THEN unique_chars
    ELSE LET char == Head(name)
             kept == IF isalpha(char) /\ \A i \in DOMAIN unique_chars : unique_chars[i] # char
                     THEN Append(unique_chars, char) ELSE unique_chars
         IN  IF Len(kept) >= 0 THEN unique_letters(kept, Tail(name)) ELSE unique_chars

\* list("ABCDEFGHIJKLMNOPQRSTUVWXYZ")
ENGLISH_ALPHABET == [i \in 1..26 |-> 64 + i]

\* get_alphabet_for_language with the native name tried before the curated
\* alphabets
get_alphabet_for_language_name_first(language_code, native_name) ==
    LET curated == {k \in DOMAIN curated_alphabets : language_code \in curated_alphabets[k][1]}
        unique_chars == unique_letters(<<>>, native_name)
    IN  IF Len(unique_chars) >= 4 THEN unique_chars
        ELSE IF curated # {}
        THEN curated_alphabets[CHOOSE k \in curated : \A j \in curated : k <= j][2]
        ELSE ENGLISH_ALPHABET

get_alphabet_for_language(language_code, native_name) ==
    LET curated == {k \in DOMAIN curated_alphabets : language_code \in curated_alphabets[k][1]}
        unique_chars == unique_letters(<<>>, native_name)
    IN  IF curated # {}
        THEN curated_alphabets[CHOOSE k \in curated : \A j \in curated : k <= j][2]
        ELSE IF Len(unique_chars) >= 4 THEN unique_chars
        ELSE ENGLISH_ALPHABET

\* str.isupper: the upper-case letters of Alphabet (a title-case letter such
\* as U+1FBC is not one)
Uppercase ==
    {65, 73, 74, 85, 86, 906, 908, 913, 914, 915, 916, 917, 918, 919, 920, 921, 922,
    923, 924, 925, 926, 927, 928, 929, 931, 932, 933, 934, 935, 936, 937, 8040, 8046}

isupper(c) == c \in Uppercase

\* sum(1 for c in text if ...): the number of positions holding a character
\* of `chars`
sum(text, chars) == Cardinality({i \in DOMAIN text : text[i] \in chars})

\* line 932: upper_ratio < 0.8, the quotient uppers / max(1, letters) compared
\* in integers (the float quotient of two such counts equals 0.8 exactly
\* when the counts are in the ratio 4 : 5)
upper_ratio_below(text) ==
    LET uppers == sum(text, Uppercase)
        letters == sum(text, Alnum)
    IN  5 * uppers < 4 * (IF letters >= 1 THEN letters ELSE 1)

\* lines 916-943
validate_script_authenticity(text, script) ==
    IF text = <<>> THEN TRUE
    ELSE IF script.case = "upper" /\ upper_ratio_below(text) THEN FALSE
    ELSE IF script.char_v_for_u /\ (\E i \in DOMAIN text : text[i] \in {85, 117})
    THEN FALSE
    ELSE TRUE

(***************************************************************************)
(* State: one call of a public function.                                   *)
(***************************************************************************)
VARIABLES
    entry,                  \* the public function called
    text,                   \* argument: the text to transform
    language_code,          \* argument: the language code
    preferences,            \* argument: None or Some(ScriptDisplayMode)
    kwargs,                 \* the flag keyword arguments as the caller gave them
    registry,               \* the ScriptRules get_language_config returns
    native_name,            \* the native_name of the configuration it returns
    authentic_mode,         \* parameter
    use_scriptio_continua,  \* parameter, rebound from preferences
    use_interpuncts,        \* parameter, rebound from preferences
    use_iota_adscript,      \* parameter, rebound from preferences
    use_nomina_sacra,       \* parameter, rebound from preferences
    remove_punctuation,     \* parameter, rebound from preferences
    pc,                     \* position in the function called
    result,                 \* local variable `result`; the value returned at "done"
    prev,                   \* history: `result` before the last step taken
    stages,                 \* history: the orchestrator stages that ran, in order
    steps,                  \* history: the composite steps that ran, in order
    calls                   \* concurrent calls: thread -> its arguments and locals

params ==
    <<use_scriptio_continua, use_interpuncts, use_iota_adscript,
      use_nomina_sacra, remove_punctuation>>

arguments ==
    <<entry, text, language_code, preferences, kwargs, registry, native_name,
      authentic_mode, calls>>

vars == <<arguments, params, pc, result, prev, stages, steps>>

\* `result` before its first assignment
Unbound == <<-1>>

\* the state at the entry of `function`, its parameters bound
CalledNamed(function, texts, codes, configs, names, objects, passed, modes) ==
    /\ entry = function
    /\ text \in texts
    /\ language_code \in codes
    /\ registry \in configs
    /\ native_name \in names
    /\ preferences \in objects
    /\ kwargs \in passed
    /\ authentic_mode \in modes
    /\ use_scriptio_continua = bind(kwargs, "use_scriptio_continua")
    /\ use_interpuncts = bind(kwargs, "use_interpuncts")
    /\ use_iota_adscript = bind(kwargs, "use_iota_adscript")
    /\ use_nomina_sacra = bind(kwargs, "use_nomina_sacra")
    /\ remove_punctuation = bind(kwargs, "remove_punctuation")
    /\ pc = "call"
    /\ result = Unbound
    /\ prev = Unbound
    /\ stages = <<>>
    /\ steps = <<>>
    /\ calls = <<>>

\* the same for a function that does not read the native name
Called(function, texts, codes, configs, objects, passed, modes) ==
    CalledNamed(function, texts, codes, configs, {<<>>}, objects, passed, modes)

(***************************************************************************)
(* apply_script_preferences, one action per stage.                         *)
(***************************************************************************)
\* a per-field merge: a flag passed individually survives the object
resolve_merged(object, field, parameter) ==
    IF object # None THEN object[1][field] \/ parameter ELSE parameter

\* `if preferences:` the field of the object replaces the parameter
resolve(object, field, parameter) ==
    IF object # None THEN object[1][field] ELSE parameter

\* the entry without the return on an empty text
Enter_without_return ==
    /\ entry = "apply_script_preferences"
    /\ pc = "call"
    /\ pc' = "step1"
    /\ use_scriptio_continua' =
         resolve(preferences, "use_scriptio_continua", use_scriptio_continua)
    /\ use_interpuncts' = resolve(preferences, "use_interpuncts", use_interpuncts)
    /\ use_iota_adscript' = resolve(preferences, "use_iota_adscript", use_iota_adscript)
    /\ use_nomina_sacra' = resolve(preferences, "use_nomina_sacra", use_nomina_sacra)
    /\ remove_punctuation' =
         resolve(preferences, "remove_modern_punctuation", remove_punctuation)
    /\ result' = text
    /\ prev' = result
    /\ UNCHANGED <<arguments, stages, steps>>

\* lines 605-616: the empty-text return, the preferences object, result = text
Enter ==
    /\ entry = "apply_script_preferences"
    /\ pc = "call"
    /\ IF text = <<>>
       THEN /\ pc' = "done"
            /\ UNCHANGED params
       ELSE /\ pc' = "step1"
            /\ use_scriptio_continua' =
                 resolve(preferences, "use_scriptio_continua", use_scriptio_continua)
            /\ use_interpuncts' = resolve(preferences, "use_interpuncts", use_interpuncts)
            /\ use_iota_adscript' =
                 resolve(preferences, "use_iota_adscript", use_iota_adscript)
            /\ use_nomina_sacra' = resolve(preferences, "use_nomina_sacra", use_nomina_sacra)
            /\ remove_punctuation' =
                 resolve(preferences, "remove_modern_punctuation", remove_punctuation)
    /\ result' = text
    /\ prev' = result
    /\ UNCHANGED <<arguments, stages, steps>>

\* a stage: when its guard holds the stage runs and is logged
Stage(at, guard, name, output, next) ==
    /\ entry = "apply_script_preferences"
    /\ pc = at
    /\ pc' = next
    /\ prev' = result
    /\ IF guard
       THEN /\ result' = output
            /\ stages' = Append(stages, name)
       ELSE UNCHANGED <<result, stages>>
    /\ UNCHANGED <<arguments, params>>

\* Step 1, lines 618-620 (apply_script_transform looks the configuration up)
Step1 ==
    LET out == apply_script_transform_with_config(result, registry)
    IN  /\ Stage("step1", authentic_mode, "apply_script_transform", out.result, "step2")
        /\ steps' = IF authentic_mode THEN out.steps ELSE steps

\* Step 2, lines 622-624
Step2 ==
    /\ Stage("step2", use_iota_adscript /\ language_code \in GREEK_CODES,
             "convert_iota_subscript_to_adscript",
             convert_iota_subscript_to_adscript(result), "step3")
    /\ UNCHANGED steps

\* Step 3 with the test of remove_punctuation lost
Step3_unguarded ==
    /\ Stage("step3", TRUE, "remove_modern_punctuation",
             remove_modern_punctuation(result, language_code), "step4")
    /\ UNCHANGED steps

\* Step 3, lines 626-628
Step3 ==
    /\ Stage("step3", remove_punctuation, "remove_modern_punctuation",
             remove_modern_punctuation(result, language_code), "step4")
    /\ UNCHANGED steps

\* Step 4, lines 630-632
Step4 ==
    /\ Stage("step4", use_nomina_sacra /\ language_code = KOINE, "apply_nomina_sacra",
             apply_nomina_sacra(result, language_code), "step5")
    /\ UNCHANGED steps

\* Step 5 with the two branches in the other order: interpuncts first
Step5_interpuncts_first ==
    /\ entry = "apply_script_preferences"
    /\ pc = "step5"
    /\ pc' = "done"
    /\ prev' = result
    /\ IF use_interpuncts
       THEN /\ result' = apply_interpunct(result)
            /\ stages' = Append(stages, "apply_interpunct")
       ELSE IF use_scriptio_continua
       THEN /\ result' = apply_scriptio_continua(result)
            /\ stages' = Append(stages, "apply_scriptio_continua")
       ELSE UNCHANGED <<result, stages>>
    /\ UNCHANGED <<arguments, params, steps>>

\* Step 5, lines 634-640: scriptio continua, else interpuncts, else neither
Step5 ==
    /\ entry = "apply_script_preferences"
    /\ pc = "step5"
    /\ pc' = "done"
    /\ prev' = result
    /\ IF use_scriptio_continua
       THEN /\ result' = apply_scriptio_continua(result)
            /\ stages' = Append(stages, "apply_scriptio_continua")
       ELSE IF use_interpuncts
       THEN /\ result' = apply_interpunct(result)
            /\ stages' = Append(stages, "apply_interpunct")
       ELSE UNCHANGED <<result, stages>>
    /\ UNCHANGED <<arguments, params, steps>>

(***************************************************************************)
(* apply_script_preferences called on several threads at once.  Each call  *)
(* has its own arguments and its own local `result` (calls[t]); the        *)
(* configuration the registry returns is the one object the calls share.   *)
(* A thread takes one step of its call at a time, in any interleaving.     *)
(***************************************************************************)
Threads == {"t1", "t2"}

\* lines 556-640 run alone: the value one call returns
apply_script_preferences(call, script) ==
    LET step1(r) == IF call.authentic_mode
                    THEN apply_script_transform_with_config(r, script).result ELSE r
        step2(r) == IF call.use_iota_adscript /\ call.language_code \in GREEK_CODES
                    THEN convert_iota_subscript_to_adscript(r) ELSE r
        step3(r) == IF call.remove_punctuation
                    THEN remove_modern_punctuation(r, call.language_code) ELSE r
        step4(r) == IF call.use_nomina_sacra /\ call.language_code = KOINE
                    THEN apply_nomina_sacra(r, call.language_code) ELSE r
        step5(r) == IF call.use_scriptio_continua THEN apply_scriptio_continua(r)
                    ELSE IF call.use_interpuncts THEN apply_interpunct(r)
                    ELSE r
    IN  IF call.text = <<>> THEN call.text
        ELSE step5(step4(step3(step2(step1(call.text)))))

\* what no step of a thread writes: the single-call state and, in it, the
\* configuration
single_call == <<entry, text, language_code, preferences, kwargs, registry,
                 native_name, authentic_mode, params, pc, result, prev, stages, steps>>

\* lines 605-616 on thread t (no preferences object): the empty-text return,
\* result = text
ThreadEnter(t) ==
    /\ calls[t].pc = "call"
    /\ calls' = [calls EXCEPT ![t].pc = IF calls[t].text = <<>> THEN "done" ELSE "step1",
                              ![t].result = calls[t].text]
    /\ UNCHANGED single_call

\* a stage on thread t: when its guard holds, `result` is rebound to output
ThreadStage(t, at, guard, output, next) ==
    /\ calls[t].pc = at
    /\ calls' = [calls EXCEPT ![t].pc = next,
                              ![t].result = IF guard THEN output ELSE calls[t].result]
    /\ UNCHANGED single_call

\* Step 1 reading the `result` another thread holds, when one does: the
\* local variable turned into a module-level one
ThreadStep1_shared_result(t) ==
    LET holders == {u \in Threads : calls[u].pc # "call"}
        shared == calls[CHOOSE u \in holders : \A v \in holders : u = t => v = t].result
    IN  ThreadStage(t, "step1", calls[t].authentic_mode,
                    apply_script_transform_with_config(shared, registry).result, "step2")

\* Step 1, lines 618-620
ThreadStep1(t) ==
    ThreadStage(t, "step1", calls[t].authentic_mode,
                apply_script_transform_with_config(calls[t].result, registry).result,
                "step2")

\* Step 2, lines 622-624
ThreadStep2(t) ==
    ThreadStage(t, "step2",
                calls[t].use_iota_adscript /\ calls[t].language_code \in GREEK_CODES,
                convert_iota_subscript_to_adscript(calls[t].result), "step3")

\* Step 3, lines 626-628
ThreadStep3(t) ==
    ThreadStage(t, "step3", calls[t].remove_punctuation,
                remove_modern_punctuation(calls[t].result, calls[t].language_code),
                "step4")

\* Step 4, lines 630-632
ThreadStep4(t) ==
    ThreadStage(t, "step4",
                calls[t].use_nomina_sacra /\ calls[t].language_code = KOINE,
                apply_nomina_sacra(calls[t].result, calls[t].language_code), "step5")

\* Step 5, lines 634-640
ThreadStep5(t) ==
    ThreadStage(t, "step5", calls[t].use_scriptio_continua \/ calls[t].use_interpuncts,
                IF calls[t].use_scriptio_continua
                THEN apply_scriptio_continua(calls[t].result)
                ELSE apply_interpunct(calls[t].result),
                "done")

(***************************************************************************)
(* The other public functions, called directly: one action each.           *)
(***************************************************************************)
Return(function, value) ==
    /\ entry = function
    /\ pc = "call"
    /\ pc' = "done"
    /\ result' = value
    /\ prev' = result
    /\ UNCHANGED <<arguments, params, stages>>

\* apply_script_transform, lines 38-39
Transform ==
    LET out == apply_script_transform_with_config(text, registry)
    IN  /\ Return("apply_script_transform", out.result)
        /\ steps' = out.steps

ConvertIota ==
    /\ Return("convert_iota_subscript_to_adscript",
              convert_iota_subscript_to_adscript(text))
    /\ UNCHANGED steps

NominaSacra ==
    /\ Return("apply_nomina_sacra", apply_nomina_sacra(text, language_code))
    /\ UNCHANGED steps

\* lines 926-943
Validate ==
    /\ Return("validate_script_authenticity", validate_script_authenticity(text, registry))
    /\ UNCHANGED steps

\* validate_script_authenticity(apply_script_transform(text, code), code):
\* the validator called on the text apply_script_transform returned
ValidateTransformed ==
    /\ entry = "apply_script_transform"
    /\ pc = "done"
    /\ pc' = "validated"
    /\ prev' = result
    /\ result' = validate_script_authenticity(result, registry)
    /\ UNCHANGED <<arguments, params, stages, steps>>

\* lines 431-553
GetAlphabet ==
    /\ Return("get_alphabet_for_language",
              get_alphabet_for_language(language_code, native_name))
    /\ UNCHANGED steps

Interpunct ==
    /\ Return("apply_interpunct", apply_interpunct(text))
    /\ UNCHANGED steps

ScriptioContinua ==
    /\ Return("apply_scriptio_continua", apply_scriptio_continua(text))
    /\ UNCHANGED steps

RemovePunctuation ==
    /\ Return("remove_modern_punctuation", remove_modern_punctuation(text, language_code))
    /\ UNCHANGED steps

RemoveAccents ==
    /\ Return("_remove_accents", _remove_accents(text))
    /\ UNCHANGED steps

\* line 68
Upper ==
    /\ Return("upper", upper(text))
    /\ UNCHANGED steps

\* line 70
Lower ==
    /\ Return("lower", lower(text))
    /\ UNCHANGED steps

\* the same transform applied to what it returned
Again ==
    /\ entry \in {"_remove_accents", "upper", "lower"}
    /\ pc = "done"
    /\ pc' = "twice"
    /\ result' = CASE entry = "_remove_accents" -> _remove_accents(result)
                   [] entry = "upper" -> upper(result)
                   [] entry = "lower" -> lower(result)
    /\ prev' = result
    /\ UNCHANGED <<arguments, params, stages, steps>>

(***************************************************************************)
(* Inputs and specifications.                                              *)
(***************************************************************************)
MaxLen == 2
MaxWords == 3

\* every text of at most n characters of `chars`
TextsOver(chars, n) == UNION {[1..k -> chars] : k \in 0..n}

\* every concatenation of at most n of the `pieces`
RECURSIVE Phrases(_, _)
Phrases(pieces, n) ==
    IF n = 0 THEN {<<>>}
    ELSE LET shorter == Phrases(pieces, n - 1)
         IN  shorter \cup {p \o w : p \in shorter, w \in pieces}

\* "χαῖρε, ὦ φίλε"
Chaire == <<967, 945, 8150, 961, 949, 44, 32, 8038, 32, 966, 943, 955, 949>>
\* "τῷ λόγῳ"
ToLogo == <<964, 8183, 32, 955, 972, 947, 8179>>
\* " a  U,\tu " : leading, trailing and doubled spaces, a tab, punctuation
Spaced == <<32, 97, 32, 32, 85, 44, 9, 117, 32>>
\* "Α·Β Γ" : an interpunct already in the text
Dotted == <<913, 183, 914, 32, 915>>
\* "θεος, ᾳ"
Theos == <<952, 949, 959, 962, 44, 32, 8115>>
\* "ΚΥΡΙΟΣ ΙΗΣΟΥΣ ΧΡΙΣΤΟΣ"
Kyrios ==
    <<922, 933, 929, 921, 927, 931, 32, 921, 919, 931, 927, 933, 931, 32,
      935, 929, 921, 931, 932, 927, 931>>

PipelineTexts ==
    {Chaire, ToLogo, Spaced, Dotted, Theos} \cup TextsOver({SPACE, 44}, MaxLen)

TransformTexts ==
    {Chaire, ToLogo, Spaced} \cup TextsOver({SPACE, 85, 117, 106, 943}, MaxLen)

\* "ᾳ", "ῳ", "ᾼ", "α" and the space
IotaTexts == {ToLogo} \cup TextsOver({8115, 8179, 8124, 945, SPACE}, MaxLen + 1)

\* ΘΕΟΣ, ΠΝΕΥΜΑ, ΤΟΣ, ΙΗΣΟΥ, Σ, Α, the space, the comma and the combining
\* acute accent U+0301:
\* ΠΝΕΥΜΑ ΤΟΣ and ΙΗΣΟΥ Σ concatenate to longer keys, Α ΘΕΟΣ to no key
NominaPieces ==
    {<<920, 917, 927, 931>>, <<928, 925, 917, 933, 924, 913>>, <<932, 927, 931>>,
     <<921, 919, 931, 927, 933>>, <<931>>, <<913>>, <<SPACE>>, <<44>>, <<769>>}

NominaTexts == {Kyrios} \cup Phrases(NominaPieces, MaxWords)

Codes == {"grc", "grc-koi", "lat"}

\* every flag passed explicitly
ExplicitKwargs == [FlagNames -> {Some(TRUE), Some(FALSE)}]

\* every flag passed or omitted
AllKwargs == [FlagNames -> {None, Some(TRUE), Some(FALSE)}]

NoKwargs == [n \in FlagNames |-> None]

\* a call of a function that takes no flags
Plain(function, texts, codes, configs) ==
    Called(function, texts, codes, configs, {None}, {NoKwargs}, {FALSE})

\* apply_script_preferences called with keyword flags and no preferences object
InitKeywords ==
    Called("apply_script_preferences", PipelineTexts, Codes, PipelineConfigs,
           {None}, ExplicitKwargs, BOOLEAN)

\* apply_script_transform called directly, under every configuration
InitTransform ==
    Plain("apply_script_transform", TransformTexts, {"lat"}, AllConfigs)

Init == InitKeywords \/ InitTransform

NextPreferences == Enter \/ Step1 \/ Step2 \/ Step3 \/ Step4 \/ Step5

Next == NextPreferences \/ Transform

Spec == Init /\ [][Next]_vars

\* apply_script_preferences with and without a preferences object, every
\* keyword flag passed or omitted
InitPrefs ==
    Called("apply_script_preferences", {<<>>, <<97, SPACE, 97>>}, {"grc"}, {GreekConfig},
           {None} \cup {Some(m) : m \in ScriptDisplayModes}, AllKwargs, {FALSE})

SpecPrefs == InitPrefs /\ [][NextPreferences]_vars

\* the pure functions called directly
InitFunctions ==
    \/ Plain("convert_iota_subscript_to_adscript", IotaTexts, {"grc"}, {GreekConfig})
    \/ Plain("apply_nomina_sacra", NominaTexts, {KOINE}, {GreekConfig})

NextFunctions == ConvertIota \/ NominaSacra

SpecFunctions == InitFunctions /\ [][NextFunctions]_vars

\* "ΑΣ", "ΑΣ." and "ΑΣ" + U+0301 + "Α": a capital sigma at the end of a word,
\* before punctuation, and inside a word after a combining mark
SigmaTexts == {<<913, 931>>, <<913, 931, 46>>, <<913, 931, 769, 913>>}

\* letters with one and with two marks, precomposed and combining, in both
\* cases; the three sigmas; a full stop and the space
AccentTexts ==
    {Chaire, ToLogo, Theos} \cup SigmaTexts
      \cup TextsOver({8115, 8124, 8038, 943, 906, 931, 962, 963, 945, 913, 769, 837,
                      46, SPACE}, MaxLen)

InitTwice ==
    \/ Plain("_remove_accents", AccentTexts, {"grc"}, {GreekConfig})
    \/ Plain("upper", AccentTexts, {"grc"}, {GreekConfig})
    \/ Plain("lower", AccentTexts, {"grc"}, {GreekConfig})

NextTwice == RemoveAccents \/ Upper \/ Lower \/ Again

SpecTwice == InitTwice /\ [][NextTwice]_vars

\* the space, the tab, the line break, the interpunct and a letter
SpacingTexts ==
    {<<32, 65, 32, 32, 65, 32>>} \cup TextsOver({SPACE, TAB, 10, INTERPUNCT, 65}, MaxLen + 2)

\* the punctuation marks of the table (line 391-406)
PunctuationMarks == {modern_punctuation[k][1] : k \in DOMAIN modern_punctuation}

\* short texts over every punctuation mark, longer ones over a deleted mark,
\* a mark replaced by a space, the space, the tab and a letter
PunctuationTexts ==
    TextsOver(PunctuationMarks \cup {SPACE, TAB, 65}, MaxLen)
      \cup TextsOver({63, 44, SPACE, TAB, 65}, MaxLen + 2)

InitSpacing ==
    \/ Plain("apply_interpunct", SpacingTexts, {"grc"}, {GreekConfig})
    \/ Plain("apply_scriptio_continua", SpacingTexts, {"grc"}, {GreekConfig})
    \/ Plain("remove_modern_punctuation", PunctuationTexts, {"grc", "lat"}, {GreekConfig})

NextSpacing == Interpunct \/ ScriptioContinua \/ RemovePunctuation

SpecSpacing == InitSpacing /\ [][NextSpacing]_vars

\* normalize_chars whose pairs feed one another: U -> V then V -> U; J -> U
\* then U -> V; I -> J then J -> I; and J deleted, U doubled, V -> U
ChainNormalizeChars == <<<<85, <<86>>>>, <<86, <<85>>>>>>
CascadeNormalizeChars == <<<<74, <<85>>>>, <<85, <<86>>>>>>
SwapNormalizeChars == <<<<73, <<74>>>>, <<74, <<73>>>>>>
GrowNormalizeChars == <<<<74, <<>>>>, <<85, <<85, 85>>>>, <<86, <<85>>>>>>

NormalizeTables ==
    {LatinNormalizeChars, ChainNormalizeChars, CascadeNormalizeChars,
     SwapNormalizeChars, GrowNormalizeChars}

\* configurations under which the composite runs the table and nothing else
NormalizeConfigs == ScriptRules({"mixed"}, {TRUE}, NormalizeTables, BOOLEAN, {FALSE}, {None})

\* texts of I, J, U, V and A
NormalizeTexts == TextsOver({73, 74, 85, 86, 65}, MaxLen + 1)

InitNormalize == Plain("apply_script_transform", NormalizeTexts, {"lat"}, NormalizeConfigs)

NextNormalize == Transform

SpecNormalize == InitNormalize /\ [][NextNormalize]_vars

\* texts of A, a, U, u and the comma, and longer ones whose upper-case ratio
\* is 4/5, 3/4 and 5/6: "AAAAa", "AAAa", "AAAAa,", "AAAAAu"
ValidatedTexts ==
    TextsOver({65, 97, 85, 117, 44}, MaxLen)
      \cup {<<65, 65, 65, 65, 97>>, <<65, 65, 65, 97>>, <<65, 65, 65, 65, 97, 44>>,
            <<65, 65, 65, 65, 65, 117>>}

\* every case mode, with and without V for U
ValidatedConfigs ==
    ScriptRules({"upper", "lower", "mixed"}, {FALSE}, {<<>>}, BOOLEAN, {FALSE}, {None})

InitValidate ==
    Plain("validate_script_authenticity", ValidatedTexts, {"grc", "lat"}, ValidatedConfigs)

NextValidate == Validate

SpecValidate == InitValidate /\ [][NextValidate]_vars

\* every combination of script rules, the table being absent, the Latin one
\* or one that leaves a U in the text
AcceptedConfigs ==
    ScriptRules({"upper", "lower", "mixed"}, BOOLEAN,
                {<<>>, LatinNormalizeChars, ChainNormalizeChars},
                BOOLEAN, BOOLEAN, Separators)

InitAccepted == Plain("apply_script_transform", TransformTexts, {"lat"}, AcceptedConfigs)

NextAccepted == Transform \/ ValidateTransformed

SpecAccepted == InitAccepted /\ [][NextAccepted]_vars

\* the calls the threads make: the empty text, "χαῖρε, ὦ φίλε" and a text of
\* spaces, U and punctuation, Greek and Latin, three flags either way
ThreadCalls ==
    [text : {<<>>, Chaire, Spaced}, language_code : {"grc", "lat"},
     authentic_mode : BOOLEAN, use_scriptio_continua : {FALSE},
     use_interpuncts : BOOLEAN, use_iota_adscript : {TRUE},
     use_nomina_sacra : {FALSE}, remove_punctuation : BOOLEAN,
     pc : {"call"}, result : {Unbound}]

\* two calls about to start, under the Ancient Greek configuration or a Latin
\* one with V for U and the interpunct
InitThreads ==
    /\ calls \in [Threads -> ThreadCalls]
    /\ entry = "apply_script_preferences on threads"
    /\ text = <<>>
    /\ language_code = "grc"
    /\ registry \in {GreekConfig,
                     [case |-> "upper", has_accents |-> TRUE,
                      normalize_chars |-> LatinNormalizeChars, char_v_for_u |-> TRUE,
                      scriptio_continua_default |-> FALSE,
                      word_separator |-> Some(<<INTERPUNCT>>)]}
    /\ native_name = <<>>
    /\ preferences = None
    /\ kwargs = NoKwargs
    /\ authentic_mode = FALSE
    /\ use_scriptio_continua = FALSE
    /\ use_interpuncts = FALSE
    /\ use_iota_adscript = TRUE
    /\ use_nomina_sacra = FALSE
    /\ remove_punctuation = FALSE
    /\ pc = "call"
    /\ result = Unbound
    /\ prev = Unbound
    /\ stages = <<>>
    /\ steps = <<>>

NextThreads ==
    \E t \in Threads :
        \/ ThreadEnter(t)
        \/ ThreadStep1(t)
        \/ ThreadStep2(t)
        \/ ThreadStep3(t)
        \/ ThreadStep4(t)
        \/ ThreadStep5(t)

SpecThreads == InitThreads /\ [][NextThreads]_vars

\* the language codes of the curated alphabets
CuratedCodes == UNION {curated_alphabets[k][1] : k \in DOMAIN curated_alphabets}

\* codes with no curated alphabet
OtherCodes == {"eng", "xx"}

\* "AI", "UV", "ΑA", "A" + U+0301, "a." and the space
NamePieces == {<<65, 73>>, <<85, 86>>, <<913, 65>>, <<65, 769>>, <<97, 46>>, <<SPACE>>}

\* native names with fewer than four letters, with four distinct letters and
\* more, with repeated letters, and with characters that are no letters
NativeNames == TextsOver({65, SPACE, 769}, MaxLen) \cup Phrases(NamePieces, MaxWords)

InitAlphabet ==
    CalledNamed("get_alphabet_for_language", {<<>>}, CuratedCodes \cup OtherCodes,
                {GreekConfig}, NativeNames, {None}, {NoKwargs}, {FALSE})

NextAlphabet == GetAlphabet

SpecAlphabet == InitAlphabet /\ [][NextAlphabet]_vars

\* nomina sacra under every language code: apply_nomina_sacra called
\* directly, and apply_script_preferences on texts that hold dictionary words
InitNomina ==
    \/ Plain("apply_nomina_sacra", NominaTexts, Codes, {GreekConfig})
    \/ Called("apply_script_preferences", {Theos, Kyrios}, Codes, {GreekConfig},
              {None}, ExplicitKwargs, BOOLEAN)

NextNomina == NextPreferences \/ NominaSacra

SpecNomina == InitNomina /\ [][NextNomina]_vars

(***************************************************************************)
(* Properties.                                                             *)
(***************************************************************************)
\* the number of occurrences of the character c in s
Count(s, c) == Cardinality({i \in DOMAIN s : s[i] = c})

Rendering == entry = "apply_script_preferences" /\ text # <<>>

\* the stages of apply_script_preferences, numbered as documented
StageNumber(name) ==
    CASE name = "apply_script_transform" -> 1
      [] name = "convert_iota_subscript_to_adscript" -> 2
      [] name = "remove_modern_punctuation" -> 3
      [] name = "apply_nomina_sacra" -> 4
      [] name \in {"apply_scriptio_continua", "apply_interpunct"} -> 5

\* whether the stage is enabled in this call
StageEnabled(k) ==
    CASE k = 1 -> authentic_mode
      [] k = 2 -> use_iota_adscript /\ language_code \in {"grc", "grc-koi"}
      [] k = 3 -> remove_punctuation
      [] k = 4 -> use_nomina_sacra /\ language_code = "grc-koi"
      [] k = 5 -> use_scriptio_continua \/ use_interpuncts

\* the number of stages the call has passed
StagesPassed ==
    CASE pc = "step1" -> 0 [] pc = "step2" -> 1 [] pc = "step3" -> 2
      [] pc = "step4" -> 3 [] pc = "step5" -> 4 [] pc = "done" -> 5

\* C1: in a call of apply_script_preferences on a non-empty text the stages
\* that have run are in strictly increasing stage order (so each at most
\* once, in the order composite, iota adscript, punctuation removal, nomina
\* sacra, word separation), they are exactly the enabled ones among the
\* stages passed so far (none skipped, none ahead of an earlier one), and a
\* stage whose guard is false leaves the text as it was.
C1_StagesInOrder ==
    (Rendering /\ pc # "call") =>
        /\ \A i, j \in DOMAIN stages :
               i < j => StageNumber(stages[i]) < StageNumber(stages[j])
        /\ {StageNumber(stages[i]) : i \in DOMAIN stages}
               = {k \in 1..StagesPassed : StageEnabled(k)}
        /\ (StagesPassed >= 1 /\ ~StageEnabled(StagesPassed)) => result = prev

\* a call in which all five stages ran and the last two changed the text
C1_AllStagesRan ==
    /\ Rendering
    /\ pc = "done"
    /\ Len(stages) = 5
    /\ result # prev

\* the five flags as the call uses them
FlagsUsed ==
    [use_scriptio_continua |-> use_scriptio_continua,
     use_interpuncts |-> use_interpuncts,
     use_iota_adscript |-> use_iota_adscript,
     use_nomina_sacra |-> use_nomina_sacra,
     remove_modern_punctuation |-> remove_punctuation]

\* a flag as passed individually, or the documented default when omitted
Passed(name, default) == IF kwargs[name] = <<>> THEN default ELSE kwargs[name][1]

\* C2: once apply_script_preferences has resolved its flags, the five flags
\* it uses are the five fields of the preferences object when one is
\* supplied, whatever was passed individually, and otherwise the values
\* passed individually with the defaults scriptio_continua = false,
\* interpuncts = false, iota_adscript = true, nomina_sacra = false,
\* remove_punctuation = false; the stages that run follow those flags.
C2_WholeObjectOverride ==
    (Rendering /\ pc # "call") =>
        /\ preferences # <<>> => FlagsUsed = preferences[1]
        /\ preferences = <<>> =>
               FlagsUsed =
                   [use_scriptio_continua |-> Passed("use_scriptio_continua", FALSE),
                    use_interpuncts |-> Passed("use_interpuncts", FALSE),
                    use_iota_adscript |-> Passed("use_iota_adscript", TRUE),
                    use_nomina_sacra |-> Passed("use_nomina_sacra", FALSE),
                    remove_modern_punctuation |-> Passed("remove_punctuation", FALSE)]
        /\ (pc = "done" /\ preferences # <<>>) =>
               /\ ("remove_modern_punctuation" \in {stages[i] : i \in DOMAIN stages})
                      = preferences[1].remove_modern_punctuation
               /\ ("apply_scriptio_continua" \in {stages[i] : i \in DOMAIN stages})
                      = preferences[1].use_scriptio_continua
               /\ ("apply_interpunct" \in {stages[i] : i \in DOMAIN stages})
                      = (preferences[1].use_interpuncts
                           /\ ~preferences[1].use_scriptio_continua)

\* a preferences object against which every flag is passed with the
\* opposite value, and a call without an object that omits every flag
C2_ObjectAgainstFlags ==
    /\ Rendering
    /\ pc = "done"
    /\ preferences # <<>>
    /\ kwargs.use_scriptio_continua = <<~preferences[1].use_scriptio_continua>>
    /\ kwargs.use_interpuncts = <<~preferences[1].use_interpuncts>>
    /\ kwargs.use_iota_adscript = <<~preferences[1].use_iota_adscript>>
    /\ kwargs.use_nomina_sacra = <<~preferences[1].use_nomina_sacra>>
    /\ kwargs.remove_punctuation = <<~preferences[1].remove_modern_punctuation>>
    /\ preferences[1].use_interpuncts
    /\ ~preferences[1].use_scriptio_continua

Rendered == Rendering /\ pc = "done"

StagesRun == {stages[i] : i \in DOMAIN stages}
StepsRun == {steps[i] : i \in DOMAIN steps}

\* the configured word separation was applied inside the composite
ConfigSeparationFired ==
    StepsRun \cap {"apply_scriptio_continua", "_apply_word_separator"} # {}

\* the requested word separation was applied in the final stage
PreferenceSeparationFired ==
    StagesRun \cap {"apply_scriptio_continua", "apply_interpunct"} # {}

\* C3: in one call of apply_script_preferences the configured word
\* separation (inside the composite) and the requested word separation (in
\* the final stage) are never both applied to the text.
C3_NeverBothFire ==
    Rendered => ~(ConfigSeparationFired /\ PreferenceSeparationFired)

\* the runs of spaces of s that lie between two characters that are not
\* white space, counted by their first space
SpaceRuns(s) ==
    Cardinality({i \in DOMAIN s :
        /\ s[i] = 32
        /\ (i = 1 \/ s[i - 1] # 32)
        /\ \E j \in 1..(i - 1) : s[j] \notin {9, 10, 32}
        /\ \E j \in (i + 1)..Len(s) : s[j] \notin {9, 10, 32}})

\* what the configuration says of word separation shows in the output: with
\* a configured separator one separator stands for each run of spaces of the
\* trimmed text and no space of the text is left; with the scriptio continua
\* default and no separator, no space or tab of the text is left.  (Removing
\* punctuation afterwards may put a space where a comma was.)
ConfigSeparationShows ==
    /\ registry.word_separator # <<>> =>
           /\ Count(result, registry.word_separator[1][1])
                  = Count(text, registry.word_separator[1][1]) + SpaceRuns(text)
           /\ ~remove_punctuation => Count(result, 32) = 0
    /\ (registry.word_separator = <<>> /\ registry.scriptio_continua_default) =>
           /\ Count(result, 9) = 0
           /\ ~remove_punctuation => Count(result, 32) = 0

NoSeparationRequested == ~use_scriptio_continua /\ ~use_interpuncts

\* C4 as stated: with neither use_scriptio_continua nor use_interpuncts set,
\* a configured word_separator replaces every run of spaces of the trimmed
\* text and a scriptio continua default (no separator configured) deletes
\* every run of spaces and tabs, whatever the value of authentic_mode.
C4_ConfigSeparationAlways ==
    (Rendered /\ NoSeparationRequested) => ConfigSeparationShows

\* C4 amended: that holds when authentic_mode is set; without authentic_mode
\* the configuration is not consulted and, unless punctuation is removed,
\* the output has the spaces and tabs of the text.
C4_ConfigSeparationInAuthenticMode ==
    (Rendered /\ NoSeparationRequested) =>
        /\ authentic_mode => ConfigSeparationShows
        /\ (~authentic_mode /\ ~remove_punctuation) =>
               /\ Count(result, 32) = Count(text, 32)
               /\ Count(result, 9) = Count(text, 9)
               /\ steps = <<>>

\* authentic mode, a configured separator, and a text with a doubled space
\* between words and spaces at both ends
C4_SeparatorReplacedRuns ==
    /\ Rendered
    /\ NoSeparationRequested
    /\ authentic_mode
    /\ registry.word_separator # <<>>
    /\ text = Spaced
    /\ "_apply_word_separator" \in StepsRun

\* C5: when use_scriptio_continua and use_interpuncts are both set, the
\* final stage is apply_scriptio_continua and apply_interpunct does not run:
\* the output is the text before the final stage without its spaces and
\* tabs, so it has no interpunct that text did not have.
C5_ScriptioContinuaWins ==
    (Rendered /\ use_scriptio_continua /\ use_interpuncts) =>
        /\ "apply_interpunct" \notin StagesRun
        /\ stages # <<>> /\ stages[Len(stages)] = "apply_scriptio_continua"
        /\ result = SelectSeq(prev, LAMBDA c : c \notin {32, 9})
        /\ Count(result, 183) = Count(prev, 183)

\* both flags set on a text that has spaces and an interpunct of its own
C5_BothRequested ==
    /\ Rendered
    /\ use_scriptio_continua
    /\ use_interpuncts
    /\ Count(prev, 32) > 0
    /\ Count(prev, 183) > 0

\* the composite ran on a non-empty text
CompositeRan ==
    /\ text # <<>>
    /\ \/ entry = "apply_script_transform" /\ pc = "done"
       \/ Rendering /\ "apply_script_transform" \in StagesRun

\* the first four steps of the composite as the configuration prescribes them
PrescribedSteps ==
    (IF registry.normalize_chars # <<>> THEN <<"normalize_chars">> ELSE <<>>)
      \o (IF registry.has_accents THEN <<>> ELSE <<"_remove_accents">>)
      \o (IF registry.case \in {"upper", "lower"} THEN <<registry.case>> ELSE <<>>)
      \o (IF registry.char_v_for_u /\ registry.normalize_chars = <<>>
          THEN <<"v_for_u">> ELSE <<>>)

\* C6: the composite runs character normalization, accent removal (iff
\* has_accents is false), case transformation and the legacy V-for-U
\* substitution in that order; V-for-U runs iff char_v_for_u is set and
\* normalize_chars is empty, so the table and the legacy substitution are
\* never both applied; after the legacy substitution no U or u is left.
C6_CompositeOrder ==
    CompositeRan =>
        /\ SelectSeq(steps, LAMBDA n : n \in {"normalize_chars", "_remove_accents",
                                              "upper", "lower", "v_for_u"})
               = PrescribedSteps
        /\ ~({"normalize_chars", "v_for_u"} \subseteq StepsRun)
        /\ ("v_for_u" \in StepsRun /\ entry = "apply_script_transform") =>
               Count(result, 85) + Count(result, 117) = 0

\* a configuration with both char_v_for_u and a normalization table, on a
\* text with a u: the table ran
C6_TableNotLegacy ==
    /\ CompositeRan
    /\ registry.char_v_for_u
    /\ registry.normalize_chars # <<>>
    /\ "normalize_chars" \in StepsRun
    /\ Count(text, 117) > 0

\* C7: on the empty text apply_script_preferences and the composite return
\* the empty text at once, whatever the language code, configuration and
\* flags, and no stage or step runs; and whatever the text, what a call
\* returns is a text.
C7_EmptyTextReturned ==
    /\ (text = <<>> /\ pc = "done"
          /\ entry \in {"apply_script_preferences", "apply_script_transform"}) =>
           /\ result = <<>>
           /\ stages = <<>>
           /\ steps = <<>>
           /\ prev = <<-1>>
    /\ pc # "call" => \A i \in DOMAIN result : result[i] \in Alphabet

\* the empty text rendered with stages requested
C7_EmptyWithFlags ==
    /\ entry = "apply_script_preferences"
    /\ text = <<>>
    /\ pc = "done"
    /\ authentic_mode
    /\ remove_punctuation
    /\ use_interpuncts
    /\ registry.word_separator # <<>>

\* "ΧΑΙΡΕ Ω ΦΙΛΕ"
ChaireAuthentic == <<935, 913, 921, 929, 917, 32, 937, 32, 934, 921, 923, 917>>
\* "ΧΑΙΡΕ·Ω·ΦΙΛΕ"
ChaireInterpuncts == <<935, 913, 921, 929, 917, 183, 937, 183, 934, 921, 923, 917>>

\* C8: with authentic_mode set and every other flag at its default, under
\* the Ancient Greek configuration, "χαῖρε, ὦ φίλε" is rendered as
\* "ΧΑΙΡΕ Ω ΦΙΛΕ" (no comma), and with use_interpuncts set in addition as
\* "ΧΑΙΡΕ·Ω·ΦΙΛΕ".
C8_DocumentedRendering ==
    (/\ Rendered
     /\ text = Chaire
     /\ language_code = "grc"
     /\ registry = GreekConfig
     /\ authentic_mode
     /\ ~use_scriptio_continua
     /\ use_iota_adscript
     /\ ~use_nomina_sacra
     /\ ~remove_punctuation) =>
        result = IF use_interpuncts THEN ChaireInterpuncts ELSE ChaireAuthentic

\* C9: convert_iota_subscript_to_adscript("ᾳ") is "ΑΙ" and
\* convert_iota_subscript_to_adscript("τῷ λόγῳ") is "ΤΩΙ ΛΟΓΩΙ": the vowel
\* and the iota come out in upper case.
C9_DocumentedAdscript ==
    (entry = "convert_iota_subscript_to_adscript" /\ pc = "done") =>
        /\ text = <<8115>> => result = <<913, 921>>
        /\ text = ToLogo => result = <<932, 937, 921, 32, 923, 927, 915, 937, 921>>

\* the abbreviation of a word that is a key, the word itself otherwise
OwnAbbreviation(word) ==
    IF \E k \in DOMAIN nomina_sacra : nomina_sacra[k][1] = word
    THEN nomina_sacra[CHOOSE k \in DOMAIN nomina_sacra : nomina_sacra[k][1] = word][2]
    ELSE word

\* the length of the word s begins with
RECURSIVE WordLength(_)
WordLength(s) ==
    IF s = <<>> \/ Head(s) \notin Alnum THEN 0 ELSE 1 + WordLength(Tail(s))

\* s with each of its words replaced by its own abbreviation
RECURSIVE WordByWord(_)
WordByWord(s) ==
    IF s = <<>> THEN <<>>
    ELSE IF WordLength(s) = 0 THEN <<Head(s)>> \o WordByWord(Tail(s))
    ELSE OwnAbbreviation(SubSeq(s, 1, WordLength(s)))
           \o WordByWord(SubSeq(s, WordLength(s) + 1, Len(s)))

\* "ΠΝΕΥΜΑΤΟΣ"
Pneumatos == <<928, 925, 917, 933, 924, 913, 932, 927, 931>>

RECURSIVE MarkedWordLength(_)
MarkedWordLength(s) ==
    IF s = <<>> \/ Head(s) \notin (Alnum \cup Mn) THEN 0
    ELSE 1 + MarkedWordLength(Tail(s))

\* s with each of its words replaced by its own abbreviation, where only
\* white space, punctuation and the ends of the text delimit a word
RECURSIVE WordByMarkedWord(_)
WordByMarkedWord(s) ==
    IF s = <<>> THEN <<>>
    ELSE IF MarkedWordLength(s) = 0 THEN <<Head(s)>> \o WordByMarkedWord(Tail(s))
    ELSE OwnAbbreviation(SubSeq(s, 1, MarkedWordLength(s)))
           \o WordByMarkedWord(SubSeq(s, MarkedWordLength(s) + 1, Len(s)))

\* C11: in apply_nomina_sacra only white space, punctuation and the ends of
\* the text are word boundaries, never a combining diacritic: a key with a
\* combining mark right before or right after it is not a whole word and is
\* left as it is.
C11_DiacriticsAreNoBoundary ==
    (entry = "apply_nomina_sacra" /\ pc = "done") => result = WordByMarkedWord(text)

\* C12: nomina sacra abbreviation does nothing unless the language code is
\* "grc-koi": for every other code apply_nomina_sacra returns the text as it
\* is, and apply_script_preferences with use_nomina_sacra set skips the
\* stage and adds no overline to the text.
C12_KoineOnly ==
    language_code # "grc-koi" =>
        /\ (entry = "apply_nomina_sacra" /\ pc = "done") => result = text
        /\ (Rendered /\ use_nomina_sacra) =>
               /\ "apply_nomina_sacra" \notin StagesRun
               /\ Count(result, 862) = Count(text, 862)

\* apply_nomina_sacra called for Ancient Greek on a text of dictionary words
C12_NotKoine ==
    /\ entry = "apply_nomina_sacra"
    /\ pc = "done"
    /\ language_code = "grc"
    /\ text = Kyrios

\* C13: accent removal and case mapping are idempotent: _remove_accents,
\* the upper case transform and the lower case transform each give, applied
\* to their own output, that output again.
C13_Idempotent ==
    (entry \in {"_remove_accents", "upper", "lower"} /\ pc = "twice") => result = prev

\* accent removal applied twice to a text it changes: a letter with two marks
C13_TwiceOnAccents ==
    /\ entry = "_remove_accents"
    /\ pc = "twice"
    /\ text = Chaire
    /\ result # text

\* the text without its leading and trailing white space
Trimmed(s) ==
    LET ink == {i \in DOMAIN s : s[i] \notin {9, 10, 32}}
    IN  IF ink = {} THEN <<>>
        ELSE SubSeq(s, CHOOSE i \in ink : \A j \in ink : i <= j,
                       CHOOSE i \in ink : \A j \in ink : i >= j)

\* no space is left, each run of spaces between words of the trimmed text has
\* become one interpunct, and everything else is kept in order
InterpunctsForSpaces ==
    /\ Count(result, 32) = 0
    /\ Count(result, 183) = Count(text, 183) + SpaceRuns(text)
    /\ SelectSeq(result, LAMBDA c : c # 183)
           = SelectSeq(Trimmed(text), LAMBDA c : c \notin {32, 183})

\* C14 as stated: for every text the output of apply_interpunct has no
\* space, neither begins nor ends with an interpunct, and has one interpunct
\* for each run of spaces between words of the trimmed text.
C14_NoInterpunctAtTheEnds ==
    (entry = "apply_interpunct" /\ pc = "done") =>
        /\ InterpunctsForSpaces
        /\ result # <<>> => (result[1] # 183 /\ result[Len(result)] # 183)

\* C14 amended: the output begins (ends) with an interpunct only when the
\* trimmed text itself begins (ends) with one.
C14_NoInterpunctAdded ==
    (entry = "apply_interpunct" /\ pc = "done") =>
        /\ InterpunctsForSpaces
        /\ result # <<>> =>
               /\ result[1] = 183 => Trimmed(text)[1] = 183
               /\ result[Len(result)] = 183 => Trimmed(text)[Len(Trimmed(text))] = 183

\* spaces at both ends and a doubled space between two words
C14_TrimmedAndCollapsed ==
    /\ entry = "apply_interpunct"
    /\ pc = "done"
    /\ text = <<32, 65, 32, 32, 65, 32>>
    /\ result = <<65, 183, 65>>

\* C15: apply_scriptio_continua returns the text without its spaces and
\* tabs; every other character, the line break included, is kept in place.
C15_SpacesAndTabsDeleted ==
    (entry = "apply_scriptio_continua" /\ pc = "done") =>
        /\ result = SelectSeq(text, LAMBDA c : c \notin {32, 9})
        /\ Count(result, 10) = Count(text, 10)

\* a letter, a tab, a line break and a space
C15_LineBreakKept ==
    /\ entry = "apply_scriptio_continua"
    /\ pc = "done"
    /\ text = <<65, 9, 10, 32>>
    /\ result = <<65, 10>>

\* the listed marks that are deleted: ? ! " ' ( ) [ ]
DeletedMarks == {63, 33, 34, 39, 40, 41, 91, 93}
\* the listed marks that become a space: , ; : . em dash, en dash
SpacedMarks == {44, 59, 58, 46, 8212, 8211}

\* s with every listed mark deleted or replaced by a space
RECURSIVE WithoutMarks(_)
WithoutMarks(s) ==
    IF s = <<>> THEN <<>>
    ELSE (IF Head(s) \in DeletedMarks THEN <<>>
          ELSE IF Head(s) \in SpacedMarks THEN <<32>>
          ELSE <<Head(s)>>) \o WithoutMarks(Tail(s))

\* s without the spaces that follow a space
RECURSIVE SingleSpaced(_, _)
SingleSpaced(s, after_space) ==
    IF s = <<>> THEN <<>>
    ELSE IF Head(s) = 32 /\ after_space THEN SingleSpaced(Tail(s), TRUE)
    ELSE <<Head(s)>> \o SingleSpaced(Tail(s), Head(s) = 32)

C17_AlphabetDistinct ==
    (entry = "get_alphabet_for_language" /\ pc = "done") =>
        \A i, j \in DOMAIN result : i # j => result[i] # result[j]

\* the positions of `name` holding a letter that no earlier position holds
FirstAppearances(name) ==
    {i \in DOMAIN name : name[i] \in Alnum /\ \A j \in 1..(i - 1) : name[j] # name[i]}

\* the letters of `name` in order of first appearance, each one once
DistinctLetters(name) ==
    LET keep == FirstAppearances(name)
    IN  [k \in 1..Cardinality(keep) |->
            name[CHOOSE i \in keep : Cardinality({j \in keep : j < i}) = k - 1]]

\* "ABCDEFGHIJKLMNOPQRSTUVWXYZ"
BasicLatin ==
    <<65, 66, 67, 68, 69, 70, 71, 72, 73, 74, 75, 76, 77,
      78, 79, 80, 81, 82, 83, 84, 85, 86, 87, 88, 89, 90>>

\* C18: for a code with no curated alphabet get_alphabet_for_language returns
\* the distinct letters of the native name in order of first appearance when
\* there are at least four of them and A..Z otherwise; for a curated code the
\* result is the curated alphabet whatever the native name.
C18_NativeNameFallback ==
    (entry = "get_alphabet_for_language" /\ pc = "done") =>
        /\ language_code \notin CuratedCodes =>
               result = IF Cardinality(FirstAppearances(native_name)) >= 4
                        THEN DistinctLetters(native_name)
                        ELSE BasicLatin
        /\ \A k \in DOMAIN curated_alphabets :
               language_code \in curated_alphabets[k][1] => result = curated_alphabets[k][2]

\* a code with no curated alphabet whose native name repeats a letter, holds
\* a character that is no letter and has four distinct letters
C18_RepeatedLetterDropped ==
    /\ entry = "get_alphabet_for_language"
    /\ pc = "done"
    /\ language_code \notin CuratedCodes
    /\ \E i, j \in DOMAIN native_name : i < j /\ native_name[i] = native_name[j]
                                              /\ native_name[i] \in Alnum
    /\ \E i \in DOMAIN native_name : native_name[i] \notin Alnum
    /\ Len(result) = 4
    /\ result # BasicLatin

\* at least 80% of the letters of the text are upper-case letters
MostlyUpper ==
    5 * Cardinality({i \in DOMAIN text : text[i] \in Uppercase})
        >= 4 * Cardinality({i \in DOMAIN text : text[i] \in Alnum})

\* C19: validate_script_authenticity returns true for the empty text, and for
\* a non-empty text, one with no letter included, exactly when (the case mode
\* is not "upper" or at least 80% of the letters are upper case) and (V for U
\* is not mandated or the text holds neither U nor u).
C19_ValidatedExactly ==
    (entry = "validate_script_authenticity" /\ pc = "done") =>
        (result <=> \/ text = <<>>
                    \/ /\ registry.case # "upper" \/ MostlyUpper
                       /\ ~registry.char_v_for_u
                              \/ \A i \in DOMAIN text : text[i] \notin {85, 117})

\* str.replace of one character, character by character
RECURSIVE ReplaceAll(_, _, _)
ReplaceAll(t, old, new) ==
    IF t = <<>> THEN <<>>
    ELSE (IF Head(t) = old THEN new ELSE <<Head(t)>>) \o ReplaceAll(Tail(t), old, new)

\* the text after the first n pairs of the table, each applied to the outcome
\* of the pairs before it
RECURSIVE NormalizedUpTo(_, _, _)
NormalizedUpTo(t, table, n) ==
    IF n = 0 THEN t
    ELSE ReplaceAll(NormalizedUpTo(t, table, n - 1), table[n][1], table[n][2])

\* C20: the pairs of normalize_chars are applied in their configured order,
\* each as a replace-all on the outcome of the pair before it, none skipped
\* or moved: where the table is the only step of the composite, the result
\* is the left fold of the replacements over the text.
C20_NormalizedInOrder ==
    (entry = "apply_script_transform" /\ pc = "done" /\ steps = <<"normalize_chars">>) =>
        result = NormalizedUpTo(text, registry.normalize_chars,
                                Len(registry.normalize_chars))

\* "UV" under U -> V, V -> U: the second pair rewrites the V the first pair
\* made, "UU" results (one pass would give "VU", the reverse order "VV")
C20_LaterPairRewrites ==
    /\ entry = "apply_script_transform"
    /\ pc = "done"
    /\ steps = <<"normalize_chars">>
    /\ registry.normalize_chars = ChainNormalizeChars
    /\ text = <<85, 86>>
    /\ result = <<85, 85>>

\* the vowels written with an iota subscript: ᾳ, ᾼ, ῳ, ῷ
SubscriptVowels == {8115, 8124, 8179, 8183}

\* the positions of s holding α, η, ω (in either case) followed by a full iota
AdscriptPairs(s) ==
    {i \in 1..(Len(s) - 1) : s[i] \in {913, 919, 937, 945, 951, 969}
                                /\ s[i + 1] \in {921, 953}}

\* C22: with authentic_mode and use_iota_adscript set, for a Greek code
\* whose configuration strips accents, every vowel with an iota subscript of
\* the text comes out as its base vowel followed by a full iota, and
\* "τῷ λόγῳ" is rendered as "ΤΩΙ ΛΟΓΩΙ" under the Ancient Greek
\* configuration: the accent stripping does not lose the iota.
C22_IotaSurvivesComposite ==
    (/\ Rendered
     /\ authentic_mode
     /\ use_iota_adscript
     /\ language_code \in GREEK_CODES
     /\ ~registry.has_accents) =>
        /\ Cardinality(AdscriptPairs(result))
               >= Cardinality({i \in DOMAIN text : text[i] \in SubscriptVowels})
        /\ (/\ text = ToLogo
            /\ registry = GreekConfig
            /\ ~use_scriptio_continua
            /\ ~use_interpuncts
            /\ ~use_nomina_sacra
            /\ ~remove_punctuation) =>
               result = <<932, 937, 921, 32, 923, 927, 915, 937, 921>>

\* C23: for every text and every configuration the validator accepts what
\* the authentic-mode transform returns:
\* validate_script_authenticity(apply_script_transform(text, code), code)
\* is true.
C23_TransformAccepted ==
    (entry = "apply_script_transform" /\ pc = "validated") => result = TRUE

\* C21: however the steps of concurrent calls of apply_script_preferences
\* interleave, each call returns what it returns when run alone on its
\* arguments, and no step changes the configuration or the text (or any
\* other argument) of a call.
C21_PureUnderInterleaving ==
    /\ [](\A t \in DOMAIN calls :
              calls[t].pc = "done" =>
                  calls[t].result = apply_script_preferences(calls[t], registry))
    /\ [][/\ registry' = registry
          /\ \A t \in DOMAIN calls :
                 [calls[t] EXCEPT !.pc = "", !.result = <<>>]
                     = [calls'[t] EXCEPT !.pc = "", !.result = <<>>]]_vars

\* two different calls under way at once, each past its composite with its
\* own text rewritten
C21_TwoCallsInFlight ==
    /\ calls # <<>>
    /\ calls["t1"].pc = "step3"
    /\ calls["t2"].pc = "step2"
    /\ calls["t1"].text # calls["t2"].text
    /\ calls["t1"].result # calls["t1"].text
    /\ calls["t2"].result # calls["t2"].text
    /\ calls["t1"].result # calls["t2"].result

====
